---- MODULE Spec2Model ----
(***************************************************************************)
(* Card-matching experiment: the card generator (card_generator.py) and    *)
(* the trial session (pages/02_Card_Trials.py).                            *)
(*                                                                         *)
(* A card is a function from the positions 0..3 to 0..4 (0 = symbol        *)
(* absent). Every random draw of the generator is a nondeterministic       *)
(* choice: an operator that models a drawing function denotes the set of   *)
(* all values the function can return.                                     *)
(*                                                                         *)
(* Specifications:                                                         *)
(*   SpecCard      one call of generate_matching_card                      *)
(*   SpecFeatures  the feature-assignment loop of generate_all_trials      *)
(*   SpecTrial     one pass of the trial loop of generate_all_trials, and  *)
(*                 an answer evaluated on the trial it appends             *)
(*   Spec          the session of pages/02_Card_Trials.py on a generated   *)
(*                 buffer of 6 x 10 trials                                 *)
(***************************************************************************)
EXTENDS Integers, Sequences, FiniteSets, TLC

VARIABLES
    \* st.session_state of pages/02_Card_Trials.py
    trials, trial, counted_trials, score, consecutive_correct, rules_found,
    perseveration_errors, non_perseveration_errors, feedback, show_feedback,
    rule_end_message,
    \* generate_all_trials: the rule -> feature pair dict being filled
    rule_features,
    \* one call of generate_matching_card: its arguments and the card it builds
    call, card,
    \* one pass of the trial loop of generate_all_trials: the arguments of
    \* generate_trial, the trial appended, and an answer evaluated on it
    args, gen_trial, selected, result, is_pers,
    \* position of the generator code under study
    pc

session_vars == <<trials, trial, counted_trials, score, consecutive_correct,
                  rules_found, perseveration_errors, non_perseveration_errors,
                  feedback, show_feedback, rule_end_message>>
generator_vars == <<rule_features, call, card, args, gen_trial, selected,
                    result, is_pers, pc>>
vars == <<session_vars, generator_vars>>

\* ------------------------------------------------------------------ bounds
\* Number of symbol forms the main card draws from (the code draws from 4).
MaxForm == 1
\* Number of alternatives get_different_value draws from (the code: 3).
MaxDiff == 1
\* Trials per rule and transition trials handed to generate_all_trials when the
\* trial loop is studied on its own.
MaxTrialsPerRule == 2
MaxTransitionTrials == 1
\* Number of generated buffers a session may be started on.
MaxBuffers == 1

\* --------------------------------------------------------------- constants
NumForms == 4
NumRules == 6
MAX_COUNTED_TRIALS == 60
TRIALS_PER_RULE == 10
TRANSITION_TRIALS == 3
LAST_TRIAL_INDEX == 9
\* The number of steps the instructions page announces.
INSTRUCTED_STEPS == 60

Positions == 0..3
active_3 == {0, 1, 2}
active_4 == {0, 1, 2, 3}
\* None where the code expects a feature pair (tested by truthiness and equality).
None == {}

Min(a, b) == IF a < b THEN a ELSE b
Max(a, b) == IF a > b THEN a ELSE b

\* A card raised as an error instead of returned.
ValueError == [p \in Positions |-> -1]

\* -------------------------------------------------------- low-level helpers
\* Mutant of GetDifferentValue: the filter v != current is lost.
GetAnyValue(current) == 1..NumForms

\* random.choice([v for v in range(1, 5) if v != current])
GetDifferentValue(current) ==
    {v \in 1..NumForms : v # current /\ ((v - current) % NumForms) \in 1..MaxDiff}

\* All cards whose value at position p is drawn from S[p].
CardsFrom(S) ==
    {[p \in Positions |-> IF p = 0 THEN a ELSE IF p = 1 THEN b
                          ELSE IF p = 2 THEN c ELSE d] :
        a \in S[0], b \in S[1], c \in S[2], d \in S[3]}

\* card = [0,0,0,0]; card[p] = random.randint(1, 4) for p in active_positions
GenerateRandomCard(active_positions) ==
    CardsFrom([p \in Positions |->
        IF p \in active_positions THEN 1..Min(MaxForm, NumForms) ELSE {0}])

\* sum(1 for p in rf if main[p] == other[p])
CountRuleMatches(main, other, rf) ==
    Cardinality({p \in rf : main[p] = other[p]})

\* ------------------------------------------------ core generation primitive
GmcFree(active_positions, must_match, must_differ) ==
    {p \in active_positions : p \notin must_match /\ p \notin must_differ}

\* The two raise statements of generate_matching_card.
GmcInvalid(active_positions, n_match, must_match, must_differ) ==
    LET free == GmcFree(active_positions, must_match, must_differ)
        n_extra == n_match - Cardinality(must_match)
    IN  \/ must_match \cap must_differ # {}
        \/ n_extra < 0
        \/ n_extra > Cardinality(free)

\* The cards built for one draw extra_match = set(random.sample(free, n_extra)).
GmcCards(main, active_positions, must_match, must_differ, extra_match) ==
    LET free == GmcFree(active_positions, must_match, must_differ)
    IN  CardsFrom([p \in Positions |->
            IF p \in free
            THEN IF p \in extra_match THEN {main[p]} ELSE GetDifferentValue(main[p])
            ELSE IF p \in must_differ THEN GetDifferentValue(main[p])
            ELSE IF p \in must_match THEN {main[p]}
            ELSE {0}])

GenerateMatchingCard(main, active_positions, n_match, must_match, must_differ) ==
    IF GmcInvalid(active_positions, n_match, must_match, must_differ)
    THEN {ValueError}
    ELSE LET free == GmcFree(active_positions, must_match, must_differ)
             n_extra == n_match - Cardinality(must_match)
         IN  UNION {GmcCards(main, active_positions, must_match, must_differ, em) :
                    em \in {e \in SUBSET free : Cardinality(e) = n_extra}}

\* random.randint(min_rf, max_rf) raises on an empty range.
GnrInvalid(active_positions, rf, n_match) ==
    LET non_rule == {p \in active_positions : p \notin rf}
        max_rf == Min(Cardinality(rf) - 1, n_match)
        min_rf == Max(0, n_match - Cardinality(non_rule))
    IN  min_rf > max_rf

\* Mutant of GenerateNotBothRuleMatch: max_rf = min(len(rule_features), n_match).
GenerateMaybeBothRuleMatch(main, active_positions, rf, n_match) ==
    LET non_rule == {p \in active_positions : p \notin rf}
        max_rf == Min(Cardinality(rf), n_match)
        min_rf == Max(0, n_match - Cardinality(non_rule))
    IN  IF min_rf > max_rf
        THEN {ValueError}
        ELSE UNION {GenerateMatchingCard(main, active_positions, n_match,
                                         matched_rf, rf \ matched_rf) :
                    matched_rf \in {m \in SUBSET rf :
                                      Cardinality(m) \in min_rf..max_rf}}

GenerateNotBothRuleMatch(main, active_positions, rf, n_match) ==
    LET non_rule == {p \in active_positions : p \notin rf}
        max_rf == Min(Cardinality(rf) - 1, n_match)
        min_rf == Max(0, n_match - Cardinality(non_rule))
    IN  IF GnrInvalid(active_positions, rf, n_match)
        THEN {ValueError}
        ELSE UNION {GenerateMatchingCard(main, active_positions, n_match,
                                         matched_rf, rf \ matched_rf) :
                    matched_rf \in {m \in SUBSET rf :
                                      Cardinality(m) \in min_rf..max_rf}}

\* ------------------------------------------------ per-rule option generation
\* Mutant of BuildCorrect: rules 5 and 6 also pin the other positions to differ.
BuildCorrectPinned(main, rf, non_rf, active_positions, rule_num) ==
    IF rule_num \in {5, 6}
    THEN UNION {GenerateMatchingCard(main, active_positions, 2 + n_extra, rf, non_rf) :
                n_extra \in 0..Min(1, Cardinality(non_rf))}
    ELSE GenerateMatchingCard(main, active_positions, 2, rf, non_rf)

BuildCorrect(main, rf, non_rf, active_positions, rule_num) ==
    IF rule_num \in {5, 6}
    THEN UNION {GenerateMatchingCard(main, active_positions, 2 + n_extra, rf, {}) :
                n_extra \in 0..Min(1, Cardinality(non_rf))}
    ELSE GenerateMatchingCard(main, active_positions, 2, rf, non_rf)

\* The three wrong cards, as a sequence <<wrong1, wrong2, wrong3>>.
BuildWrongCards(main, rf, active_positions, rule_num) ==
    LET g(n) == GenerateMatchingCard(main, active_positions, n, {}, {})
        gnr(n) == GenerateNotBothRuleMatch(main, active_positions, rf, n)
    IN  IF rule_num = 1 THEN g(0) \X g(1) \X gnr(2)
        ELSE IF rule_num = 2 THEN g(1) \X gnr(2) \X gnr(2)
        ELSE IF rule_num = 3 THEN g(0) \X g(1) \X gnr(2)
        ELSE IF rule_num = 4 THEN g(1) \X g(1) \X gnr(2)
        ELSE IF rule_num = 5 THEN g(1) \X gnr(2) \X gnr(2)
        ELSE IF rule_num = 6 THEN (gnr(2) \cup gnr(3)) \X gnr(2) \X gnr(2)
        ELSE {<<ValueError, ValueError, ValueError>>}

\* ---------------------------------------------------- single trial generator
\* Mutant of WithTransition: wrong[0] = transition.
WithTransitionFirstSlot(main, active_positions, wrong, is_transition, prev_rule_features) ==
    IF /\ is_transition /\ prev_rule_features # None
       /\ \A k \in 1..3 : wrong[k] # ValueError
    THEN {<<transition, wrong[2], wrong[3]>> :
            transition \in GenerateMatchingCard(main, active_positions, 2,
                prev_rule_features,
                {p \in active_positions : p \notin prev_rule_features})}
    ELSE {wrong}

\* if is_transition and prev_rule_features: wrong[-1] = transition
WithTransition(main, active_positions, wrong, is_transition, prev_rule_features) ==
    IF /\ is_transition /\ prev_rule_features # None
       /\ \A k \in 1..3 : wrong[k] # ValueError   \* _build_wrong_cards returned
    THEN {<<wrong[1], wrong[2], transition>> :
            transition \in GenerateMatchingCard(main, active_positions, 2,
                prev_rule_features,
                {p \in active_positions : p \notin prev_rule_features})}
    ELSE {wrong}

\* random.shuffle(perm): every permutation of range(4).
Permutations4 ==
    {f \in [Positions -> Positions] : \A i, j \in Positions : f[i] = f[j] => i = j}

\* perm.index(x)
PermIndex(perm, x) == CHOOSE i \in Positions : perm[i] = x

\* The previous rule's pair as the trial record carries it: non-null only on a
\* transition trial.
PrevFeaturePair(is_transition, prev_rule_features) ==
    IF is_transition THEN prev_rule_features ELSE None

\* One random draw of generate_trial: main card, correct card, wrong cards
\* (transition substitution applied) and the shuffle.
TrialDraw(main, correct, wrong, perm) ==
    [main |-> main, correct |-> correct, wrong |-> wrong, perm |-> perm]

\* An exception of the card primitives propagates out of generate_trial.
Raised(draw) ==
    \/ draw.correct = ValueError
    \/ \E k \in 1..3 : draw.wrong[k] = ValueError

\* options = [correct] + wrong; shuffled = [options[i] for i in perm]
ShuffledOptions(draw) ==
    LET options == [i \in Positions |-> IF i = 0 THEN draw.correct ELSE draw.wrong[i]]
    IN  [i \in Positions |-> options[draw.perm[i]]]

\* The dict generate_trial returns (display codes and paths left out), with the
\* ordinal generate_all_trials stamps on it.
TrialRecord(draw, rule_num, rf, active_positions, is_transition, prev_rule_features, trial_i) ==
    [main |-> draw.main,
     options |-> ShuffledOptions(draw),
     correct |-> PermIndex(draw.perm, 0),
     rule |-> rule_num,
     rule_features |-> rf,
     active_positions |-> active_positions,
     is_transition |-> is_transition,
     prev_rule_features |-> PrevFeaturePair(is_transition, prev_rule_features),
     trial_index_in_rule |-> trial_i]

\* -------------------------------------------- top level: generate_all_trials
\* list(combinations(active, 2))
Pairs(active_positions) ==
    {pr \in SUBSET active_positions : Cardinality(pr) = 2}

ActiveOf(rule_num) == IF rule_num <= 2 THEN active_3 ELSE active_4

\* Mutant of Candidates: the previous pair is excluded only inside a stage, as
\* the comment on the stage boundary expects.
CandidatesWithinStage(r, prev) ==
    LET pairs == Pairs(ActiveOf(r))
    IN  IF r > 1 /\ ActiveOf(r - 1) = ActiveOf(r)
        THEN {p \in pairs : p # prev} ELSE pairs

\* candidates = [p for p in pairs if p != prev] if (prev in pairs) else pairs
Candidates(r, prev) ==
    LET pairs == Pairs(ActiveOf(r))
    IN  IF prev \in pairs THEN {p \in pairs : p # prev} ELSE pairs

\* Mutant of IsTrans: trial_i <= transition_trials.
IsTransInclusive(prf, trial_i, transition_trials) ==
    prf # None /\ trial_i <= transition_trials

\* is_trans = prf is not None and trial_i < transition_trials
IsTrans(prf, trial_i, transition_trials) ==
    prf # None /\ trial_i < transition_trials

\* ------------------------------------------------------------ answer checking
\* Mutant of CheckAnswer: half_correct needs both rule features.
CheckAnswerBothFeatures(trial_data, selected_index) ==
    IF selected_index = trial_data.correct THEN "correct"
    ELSE LET rule_matches == CountRuleMatches(trial_data.main,
                                 trial_data.options[selected_index],
                                 trial_data.rule_features)
         IN  IF rule_matches >= 2 THEN "half_correct" ELSE "incorrect"

\* check_answer(trial_data, selected_index)
CheckAnswer(trial_data, selected_index) ==
    IF selected_index = trial_data.correct THEN "correct"
    ELSE LET rule_matches == CountRuleMatches(trial_data.main,
                                 trial_data.options[selected_index],
                                 trial_data.rule_features)
         IN  IF rule_matches >= 1 THEN "half_correct" ELSE "incorrect"

\* is_perseveration(trial_data, selected_index)
IsPerseveration(trial_data, selected_index) ==
    /\ trial_data.prev_rule_features # None
    /\ \A p \in trial_data.prev_rule_features :
          trial_data.options[selected_index][p] = trial_data.main[p]

\* ===================================================================
\* State machines
\* ===================================================================
NoCall == [main |-> [p \in Positions |-> 0], active_positions |-> {}, n_match |-> 0,
           must_match |-> {}, must_differ |-> {}]
NoCard == [p \in Positions |-> 0]
NoArgs == [rule_num |-> 0]
NoTrial == [rule |-> 0]

SessionIdle ==
    /\ trials = 0 /\ trial = 0 /\ counted_trials = 0 /\ score = 0
    /\ consecutive_correct = 0 /\ rules_found = 0
    /\ perseveration_errors = 0 /\ non_perseveration_errors = 0
    /\ feedback = "None" /\ show_feedback = FALSE /\ rule_end_message = FALSE

CardIdle == call = NoCall /\ card = NoCard
FeaturesIdle == rule_features = <<>>
TrialIdle ==
    /\ args = NoArgs /\ gen_trial = NoTrial /\ selected = -1
    /\ result = "None" /\ is_pers = FALSE

\* ------------------------------------------- generate_matching_card, one call
CardCalls ==
    {[main |-> m, active_positions |-> act, n_match |-> n,
      must_match |-> mm, must_differ |-> md] :
        m \in GenerateRandomCard(active_3) \cup GenerateRandomCard(active_4),
        act \in {active_3, active_4},
        n \in 0..NumForms, mm \in SUBSET Positions, md \in SUBSET Positions}

InitCard ==
    /\ SessionIdle /\ FeaturesIdle /\ TrialIdle
    /\ pc = "call"
    /\ call \in {c \in CardCalls :
                   /\ c.main \in GenerateRandomCard(c.active_positions)
                   /\ c.must_match \subseteq c.active_positions
                   /\ c.must_differ \subseteq c.active_positions}
    /\ card = NoCard

GenerateMatchingCardCall ==
    /\ pc = "call"
    /\ card' \in GenerateMatchingCard(call.main, call.active_positions, call.n_match,
                                      call.must_match, call.must_differ)
    /\ pc' = IF card' = ValueError THEN "raised" ELSE "returned"
    /\ UNCHANGED <<session_vars, rule_features, call, args, gen_trial,
                   selected, result, is_pers>>

NextCard == GenerateMatchingCardCall
SpecCard == InitCard /\ [][NextCard]_vars

\* ------------------------------- generate_all_trials: assigning rule features
\* rule_features.get(k)
Get(d, k) == IF k \in DOMAIN d THEN d[k] ELSE None

InitFeatures ==
    /\ SessionIdle /\ CardIdle /\ TrialIdle
    /\ pc = "assign"
    /\ rule_features = <<>>

\* One pass of: for r in range(1, 7): ... rule_features[r] = random.choice(candidates)
AssignRuleFeatures ==
    /\ pc = "assign"
    /\ LET r == Len(rule_features) + 1
           prev == Get(rule_features, r - 1)
       IN  /\ r <= NumRules
           /\ \E choice \in Candidates(r, prev) :
                rule_features' = Append(rule_features, choice)
           /\ pc' = IF r = NumRules THEN "schedule" ELSE "assign"
    /\ UNCHANGED <<session_vars, call, card, args, gen_trial, selected,
                   result, is_pers>>

NextFeatures == AssignRuleFeatures
SpecFeatures == InitFeatures /\ [][NextFeatures]_vars

\* Every dict the assignment loop can leave after rule r.
RECURSIVE AssignmentsUpTo(_)
AssignmentsUpTo(r) ==
    IF r = 0 THEN {<<>>}
    ELSE UNION {{Append(a, choice) : choice \in Candidates(r, Get(a, r - 1))} :
                a \in AssignmentsUpTo(r - 1)}

\* ------------------------- generate_all_trials: one pass of the trial loop
\* The arguments the loop passes to generate_trial for rule rule_num, trial trial_i.
TrialArgs(a, rule_num, trial_i, transition_trials) ==
    LET prf == IF rule_num > 1 THEN a[rule_num - 1] ELSE None
    IN  [rule_num |-> rule_num, rf |-> a[rule_num],
         active_positions |-> ActiveOf(rule_num),
         is_transition |-> IsTrans(prf, trial_i, transition_trials),
         prev_rule_features |-> prf,
         trial_i |-> trial_i, transition_trials |-> transition_trials]

InitTrial ==
    /\ SessionIdle /\ CardIdle /\ FeaturesIdle
    /\ pc = "generate"
    /\ args \in {TrialArgs(a, r, i, tt) :
                   a \in AssignmentsUpTo(NumRules), r \in 1..NumRules,
                   i \in 0..(MaxTrialsPerRule - 1), tt \in {MaxTransitionTrials}}
    /\ gen_trial = NoTrial /\ selected = -1 /\ result = "None" /\ is_pers = FALSE

\* trial = generate_trial(...); trial["trial_index_in_rule"] = trial_i
GenerateTrialCall ==
    /\ pc = "generate"
    /\ LET rf == args.rf
           active_positions == args.active_positions
           non_rf == {p \in active_positions : p \notin rf}
       IN  \E main \in GenerateRandomCard(active_positions) :
           \E correct \in BuildCorrect(main, rf, non_rf, active_positions, args.rule_num) :
           \E w \in BuildWrongCards(main, rf, active_positions, args.rule_num) :
           \E wrong \in WithTransition(main, active_positions, w, args.is_transition,
                                       args.prev_rule_features) :
           \E perm \in Permutations4 :
             LET draw == TrialDraw(main, correct, wrong, perm)
             IN  IF Raised(draw)
                 THEN pc' = "raised" /\ gen_trial' = gen_trial
                 ELSE /\ pc' = "trial"
                      /\ gen_trial' = TrialRecord(draw, args.rule_num, rf,
                                         active_positions, args.is_transition,
                                         args.prev_rule_features, args.trial_i)
    /\ args' = NoArgs                     \* the call is over
    /\ UNCHANGED <<session_vars, rule_features, call, card, selected,
                   result, is_pers>>

\* check_answer and is_perseveration applied to the trial for one selection.
EvaluateSelection ==
    /\ pc = "trial"
    /\ \E i \in Positions :
          /\ selected' = i
          /\ result' = CheckAnswer(gen_trial, i)
          /\ is_pers' = IsPerseveration(gen_trial, i)
    /\ pc' = "answered"
    /\ UNCHANGED <<session_vars, rule_features, call, card, args, gen_trial>>

NextTrial == GenerateTrialCall \/ EvaluateSelection
SpecTrial == InitTrial /\ [][NextTrial]_vars

\* ===================================================================
\* The session: pages/02_Card_Trials.py. One action is one run of the page
\* script, from the session state one run leaves to the state the next finds.
\* ===================================================================
\* One trial generate_trial can return for the arguments ar: every random draw
\* resolved to one of its outcomes (v tells the buffers apart).
SampleTrial(ar, v) ==
    LET active_positions == ar.active_positions
        non_rf == {p \in active_positions : p \notin ar.rf}
        main == CHOOSE m \in GenerateRandomCard(active_positions) : TRUE
        correct == CHOOSE c \in BuildCorrect(main, ar.rf, non_rf, active_positions,
                                             ar.rule_num) : TRUE
        w == CHOOSE x \in BuildWrongCards(main, ar.rf, active_positions, ar.rule_num) : TRUE
        wrong == CHOOSE x \in WithTransition(main, active_positions, w, ar.is_transition,
                                             ar.prev_rule_features) : TRUE
        perm == CHOOSE f \in Permutations4 : f[(ar.trial_i + v) % 4] = 0
    IN  TrialRecord(TrialDraw(main, correct, wrong, perm), ar.rule_num, ar.rf,
                    active_positions, ar.is_transition, ar.prev_rule_features,
                    ar.trial_i)

\* The trial loop of generate_all_trials(trials_per_rule, transition_trials) for
\* the feature assignment a: all_trials.append(trial), rule 1 first,
\* trials_per_rule trials per rule.
RECURSIVE AppendTrials(_, _, _, _, _)
AppendTrials(all_trials, a, v, trials_per_rule, transition_trials) ==
    IF Len(all_trials) >= NumRules * trials_per_rule THEN all_trials
    ELSE LET rule_num == (Len(all_trials) \div trials_per_rule) + 1
             trial_i == Len(all_trials) % trials_per_rule
         IN  AppendTrials(
                 Append(all_trials,
                        SampleTrial(TrialArgs(a, rule_num, trial_i, transition_trials), v)),
                 a, v, trials_per_rule, transition_trials)

AllTrials(a, v, trials_per_rule, transition_trials) ==
    AppendTrials(<<>>, a, v, trials_per_rule, transition_trials)

\* The feature assignments of the first n buffers: n outcomes of the assignment
\* loop that differ on every rule of stage 2.
RECURSIVE SessionAssignments(_)
SessionAssignments(n) ==
    IF n = 0 THEN <<>>
    ELSE LET before == SessionAssignments(n - 1)
         IN  Append(before,
                    CHOOSE a \in AssignmentsUpTo(NumRules) :
                        \A u \in 1..(n - 1) : \A r \in 3..NumRules : a[r] # before[u][r])

RECURSIVE BuffersUpTo(_)
BuffersUpTo(n) ==
    IF n = 0 THEN <<>>
    ELSE Append(BuffersUpTo(n - 1),
                AllTrials(SessionAssignments(n)[n], n, TRIALS_PER_RULE, TRANSITION_TRIALS))

\* The buffers _init_state() can be handed by
\* generate_all_trials(trials_per_rule=10, transition_trials=3); the session
\* variable trials refers to one of them by its number.
SessionBuffers == BuffersUpTo(MaxBuffers)

\* TRIALS = st.session_state.trials
TRIALS == SessionBuffers[trials]

\* TRIALS[i]
TrialAt(i) == TRIALS[i + 1]

GeneratorIdle == CardIdle /\ FeaturesIdle /\ TrialIdle /\ pc = "session"

\* _init_state()
InitState(buffer) ==
    [trials |-> buffer, trial |-> 0, counted_trials |-> 0, score |-> 0,
     consecutive_correct |-> 0, rules_found |-> 0, perseveration_errors |-> 0,
     non_perseveration_errors |-> 0, feedback |-> "None", show_feedback |-> FALSE,
     rule_end_message |-> FALSE]

SessionIs(st) ==
    /\ trials = st.trials /\ trial = st.trial
    /\ counted_trials = st.counted_trials /\ score = st.score
    /\ consecutive_correct = st.consecutive_correct /\ rules_found = st.rules_found
    /\ perseveration_errors = st.perseveration_errors
    /\ non_perseveration_errors = st.non_perseveration_errors
    /\ feedback = st.feedback /\ show_feedback = st.show_feedback
    /\ rule_end_message = st.rule_end_message

Init ==
    /\ GeneratorIdle
    /\ \E buffer \in DOMAIN SessionBuffers : SessionIs(InitState(buffer))

\* Mutant of IsFirstTrialOfRule: no trial is exempt from scoring.
IsFirstTrialOfRuleNever(trial_data) == FALSE

\* Mutant of IsFirstTrialOfRule: only the first trial of the buffer is exempt.
IsFirstTrialOfFirstRule(trial_data) ==
    trial_data.trial_index_in_rule = 0 /\ trial_data.rule = 1

IsFirstTrialOfRule(trial_data) == trial_data.trial_index_in_rule = 0

\* Mutant of AdvanceToNextRule: t["rule"] >= current_rule.
AdvanceToSameRule(buffer, cursor) ==
    LET current_rule == buffer[cursor + 1].rule
        later == {i \in 0..(Len(buffer) - 1) : buffer[i + 1].rule >= current_rule}
    IN  IF later # {} THEN CHOOSE i \in later : \A j \in later : i <= j
        ELSE Len(buffer)

\* _advance_to_next_rule(): the value it leaves in st.session_state.trial
AdvanceToNextRule(buffer, cursor) ==
    LET current_rule == buffer[cursor + 1].rule
        later == {i \in 0..(Len(buffer) - 1) : buffer[i + 1].rule > current_rule}
    IN  IF later # {} THEN CHOOSE i \in later : \A j \in later : i <= j
        ELSE Len(buffer)

\* Mutant of GameOver: the end of the buffer is taken one trial early.
GameOverOneEarly ==
    \/ counted_trials >= MAX_COUNTED_TRIALS
    \/ trial >= Len(TRIALS) - 1

\* _game_over()
GameOver ==
    \/ counted_trials >= MAX_COUNTED_TRIALS
    \/ trial >= Len(TRIALS)

\* End screen: the Restart button.
Restart ==
    /\ GameOver
    /\ \E buffer \in DOMAIN SessionBuffers :
         LET st == InitState(buffer)
         IN  /\ trials' = st.trials /\ trial' = st.trial
             /\ counted_trials' = st.counted_trials /\ score' = st.score
             /\ consecutive_correct' = st.consecutive_correct
             /\ rules_found' = st.rules_found
             /\ perseveration_errors' = st.perseveration_errors
             /\ non_perseveration_errors' = st.non_perseveration_errors
             /\ feedback' = st.feedback /\ show_feedback' = st.show_feedback
             /\ rule_end_message' = st.rule_end_message
    /\ UNCHANGED generator_vars

\* The run that finds rule_end_message set.
RuleEndMessage ==
    /\ ~GameOver
    /\ rule_end_message
    /\ rule_end_message' = FALSE
    /\ trial' = AdvanceToNextRule(TRIALS, trial)
    /\ consecutive_correct' = 0
    /\ UNCHANGED <<trials, counted_trials, score, rules_found, perseveration_errors,
                   non_perseveration_errors, feedback, show_feedback, generator_vars>>

\* The run that finds show_feedback set: show the feedback, decide what is next.
ShowFeedback ==
    /\ ~GameOver
    /\ ~rule_end_message
    /\ show_feedback
    /\ show_feedback' = FALSE
    /\ feedback' = "None"
    /\ LET streak == consecutive_correct
           is_last_trial == TrialAt(trial).trial_index_in_rule = LAST_TRIAL_INDEX
       IN  IF streak >= 3
           THEN /\ consecutive_correct' = 0
                /\ UNCHANGED <<trial, rule_end_message>>
           ELSE IF is_last_trial
           THEN /\ rule_end_message' = TRUE
                /\ trial' = trial + 1
                /\ UNCHANGED consecutive_correct
           ELSE /\ trial' = trial + 1
                /\ UNCHANGED <<consecutive_correct, rule_end_message>>
    /\ UNCHANGED <<trials, counted_trials, score, rules_found, perseveration_errors,
                   non_perseveration_errors, generator_vars>>

\* Mutant of Select: a correct answer on the first trial of a rule adds to
\* score although the trial is not counted.
SelectScoringFirstTrial(i) ==
    /\ ~GameOver
    /\ ~rule_end_message
    /\ ~show_feedback
    /\ LET trial_data == TrialAt(trial)
           first_of_rule == IsFirstTrialOfRule(trial_data)
           fb == CheckAnswer(trial_data, i)
           streak == IF fb = "correct" THEN consecutive_correct + 1 ELSE 0
       IN  /\ IF ~first_of_rule
              THEN /\ counted_trials' = counted_trials + 1
                   /\ IF fb = "correct"
                      THEN /\ score' = score + 1
                           /\ UNCHANGED <<perseveration_errors, non_perseveration_errors>>
                      ELSE /\ UNCHANGED score
                           /\ IF IsPerseveration(trial_data, i)
                              THEN /\ perseveration_errors' = perseveration_errors + 1
                                   /\ UNCHANGED non_perseveration_errors
                              ELSE /\ non_perseveration_errors' = non_perseveration_errors + 1
                                   /\ UNCHANGED perseveration_errors
              ELSE /\ score' = IF fb = "correct" THEN score + 1 ELSE score
                   /\ UNCHANGED <<counted_trials, perseveration_errors,
                                  non_perseveration_errors>>
           /\ consecutive_correct' = streak
           /\ IF streak >= 3
              THEN /\ rules_found' = rules_found + 1
                   /\ trial' = AdvanceToNextRule(TRIALS, trial)
              ELSE UNCHANGED <<rules_found, trial>>
           /\ feedback' = fb
           /\ show_feedback' = TRUE
    /\ UNCHANGED <<trials, rule_end_message, generator_vars>>

\* The run in which the participant presses Select under option i.
Select(i) ==
    /\ ~GameOver
    /\ ~rule_end_message
    /\ ~show_feedback
    /\ LET trial_data == TrialAt(trial)
           first_of_rule == IsFirstTrialOfRule(trial_data)
           fb == CheckAnswer(trial_data, i)
           streak == IF fb = "correct" THEN consecutive_correct + 1 ELSE 0
       IN  /\ IF ~first_of_rule
              THEN /\ counted_trials' = counted_trials + 1
                   /\ IF fb = "correct"
                      THEN /\ score' = score + 1
                           /\ UNCHANGED <<perseveration_errors, non_perseveration_errors>>
                      ELSE /\ UNCHANGED score
                           /\ IF IsPerseveration(trial_data, i)
                              THEN /\ perseveration_errors' = perseveration_errors + 1
                                   /\ UNCHANGED non_perseveration_errors
                              ELSE /\ non_perseveration_errors' = non_perseveration_errors + 1
                                   /\ UNCHANGED perseveration_errors
              ELSE UNCHANGED <<counted_trials, score, perseveration_errors,
                               non_perseveration_errors>>
           /\ consecutive_correct' = streak
           /\ IF streak >= 3
              THEN /\ rules_found' = rules_found + 1
                   /\ trial' = AdvanceToNextRule(TRIALS, trial)
              ELSE UNCHANGED <<rules_found, trial>>
           /\ feedback' = fb
           /\ show_feedback' = TRUE
    /\ UNCHANGED <<trials, rule_end_message, generator_vars>>

Next ==
    \/ Restart
    \/ RuleEndMessage
    \/ ShowFeedback
    \/ \E i \in Positions : Select(i)

Spec == Init /\ [][Next]_vars

\* ===================================================================
\* Properties of the session
\* ===================================================================
\* The terminal condition as the specification words it.
SessionEnded ==
    counted_trials >= MAX_COUNTED_TRIALS \/ trial >= Len(TRIALS)

\* A trial is on screen and a selection is awaited.
AwaitingSelection == ~SessionEnded /\ ~show_feedback /\ ~rule_end_message

\* Index of the first trial of rule r in the buffer, or its length when the
\* buffer holds no trial of rule r.
StartOfRule(r) ==
    LET of_r == {i \in 0..(Len(TRIALS) - 1) : TrialAt(i).rule = r}
    IN  IF of_r = {} THEN Len(TRIALS)
        ELSE CHOOSE i \in of_r : \A j \in of_r : i <= j

\* The answer just given was to the trial under the cursor and did not complete
\* a streak of 3.
AnsweredWithoutStreak ==
    ~SessionEnded /\ show_feedback /\ ~rule_end_message /\ consecutive_correct < 3

\* C1. Rule exhaustion: after the last trial (ordinal 9) of rule r is answered
\* without completing a streak of 3, the next trial presented is the first
\* trial of rule r + 1 with streak 0 (past the end of the buffer when r is the
\* last rule); no rule's block is skipped.
C1_RuleExhaustion ==
    [][ /\ ( /\ AnsweredWithoutStreak
             /\ TrialAt(trial).trial_index_in_rule = LAST_TRIAL_INDEX )
           => \/ trial' = Len(TRIALS) /\ TrialAt(trial).rule = NumRules
              \/ trial' < Len(TRIALS) /\ rule_end_message'
        /\ (~SessionEnded /\ rule_end_message)
           => /\ trial' = StartOfRule(TrialAt(trial - 1).rule + 1)
              /\ consecutive_correct' = 0
              /\ AwaitingSelection' ]_vars

\* C2 as the specification states it: answering the first trial of a rule
\* leaves score and both error counters unchanged, adds 1 to counted_trials and
\* updates the streak.
C2_FirstTrialCounted ==
    [][ (AwaitingSelection /\ TrialAt(trial).trial_index_in_rule = 0)
        => /\ score' = score
           /\ perseveration_errors' = perseveration_errors
           /\ non_perseveration_errors' = non_perseveration_errors
           /\ counted_trials' = counted_trials + 1
           /\ \E i \in Positions :
                /\ feedback' = CheckAnswer(TrialAt(trial), i)
                /\ consecutive_correct' =
                     IF feedback' = "correct" THEN consecutive_correct + 1 ELSE 0 ]_vars

\* C2, amended. Answering the first trial of a rule (trial_index_in_rule = 0),
\* with any selected index and any evaluation result, leaves score,
\* perseveration_errors, non_perseveration_errors and counted_trials unchanged
\* and updates the streak (+1 on correct, reset to 0 otherwise).
C2_FirstTrialExempt ==
    [][ (AwaitingSelection /\ TrialAt(trial).trial_index_in_rule = 0)
        => /\ score' = score
           /\ perseveration_errors' = perseveration_errors
           /\ non_perseveration_errors' = non_perseveration_errors
           /\ counted_trials' = counted_trials
           /\ \E i \in Positions :
                /\ feedback' = CheckAnswer(TrialAt(trial), i)
                /\ consecutive_correct' =
                     IF feedback' = "correct" THEN consecutive_correct + 1 ELSE 0 ]_vars

\* The first trial of a later rule has just been answered wrongly, after trials
\* that counted.
C2_Witness ==
    /\ AnsweredWithoutStreak
    /\ TrialAt(trial).trial_index_in_rule = 0
    /\ TrialAt(trial).rule >= 2
    /\ feedback # "correct"
    /\ counted_trials > 0 /\ score > 0 /\ perseveration_errors > 0

\* C3. Streak advance: an answer that brings the streak to 3 within rule r adds
\* exactly 1 to rules_found and moves the cursor to the first trial of rule
\* r + 1 (past the end of the buffer when r is the last rule); the feedback run
\* that follows presents that trial with streak 0 and starts no rule-exhaustion
\* transition, also when the third correct answer was on ordinal 9. rules_found
\* changes in no other way short of a restart, and a streak of 3 is never
\* carried into a presented trial.
C3_StreakAdvance ==
    [][ /\ (AwaitingSelection /\ consecutive_correct' >= 3)
           => /\ consecutive_correct < 3
              /\ feedback' = "correct"
              /\ rules_found' = rules_found + 1
              /\ trial' = StartOfRule(TrialAt(trial).rule + 1)
              /\ show_feedback' /\ ~rule_end_message'
        /\ (~SessionEnded /\ show_feedback /\ consecutive_correct >= 3)
           => /\ trial' = trial
              /\ TrialAt(trial').trial_index_in_rule = 0
              /\ consecutive_correct' = 0
              /\ rules_found' = rules_found
              /\ AwaitingSelection'
        /\ (rules_found' # rules_found)
           => \/ AwaitingSelection /\ consecutive_correct' >= 3
              \/ SessionEnded /\ rules_found' = 0
        /\ AwaitingSelection' => consecutive_correct' < 3 ]_vars

\* The third correct answer in a row was given on ordinal 9 of rule 1: all nine
\* counted trials of the rule are answered and the cursor is on rule 2.
C3_Witness ==
    /\ show_feedback /\ consecutive_correct = 3 /\ rules_found = 1
    /\ counted_trials = LAST_TRIAL_INDEX
    /\ trial = StartOfRule(2) /\ ~rule_end_message

\* A run of the page that is not the end screen.
SessionStep == RuleEndMessage \/ ShowFeedback \/ \E i \in Positions : Select(i)

\* C4. Termination: the session is over (no trial is presented, no selection is
\* accepted, nothing but a restart changes the state) if and only if
\* counted_trials >= 60 or the cursor is at or past the end of the buffer.
C4_Termination ==
    /\ SessionEnded <=> ~ENABLED SessionStep
    /\ SessionEnded => ENABLED Restart

\* The session is over by the cursor alone, far below 60 counted trials.
C4_Witness ==
    /\ SessionEnded
    /\ trial >= Len(TRIALS)
    /\ counted_trials < MAX_COUNTED_TRIALS
    /\ counted_trials > 0

\* ===================================================================
\* Properties of the generator
\* ===================================================================
\* The trial loop has appended a trial.
TrialBuilt == pc \in {"trial", "answered"}

\* The option under index i equals main on every position of pair.
MatchesOnAll(trial_data, i, pair) ==
    \A p \in pair : trial_data.options[i][p] = trial_data.main[p]

C6_UniqueCorrect ==
    TrialBuilt =>
        /\ gen_trial.correct \in Positions
        /\ CountRuleMatches(gen_trial.main, gen_trial.options[gen_trial.correct],
                            gen_trial.rule_features) = 2
        /\ \A i \in Positions :
              i # gen_trial.correct =>
                  CountRuleMatches(gen_trial.main, gen_trial.options[i],
                                   gen_trial.rule_features) < 2

\* A transition trial of rule 3 (stage boundary) whose transition card shares a
\* position with the rule pair, the correct card not in the first slot.
C6_Witness ==
    /\ pc = "trial" /\ gen_trial.rule = 3 /\ gen_trial.is_transition
    /\ gen_trial.correct = 2
    /\ gen_trial.prev_rule_features \cap gen_trial.rule_features # {}
    /\ \E i \in Positions : /\ i # gen_trial.correct
                            /\ MatchesOnAll(gen_trial, i, gen_trial.prev_rule_features)

\* C7. Answer evaluation: check_answer returns "correct" exactly for the
\* recorded correct index; for another index "half_correct" if the option
\* equals main on at least one rule-feature position and "incorrect" if on
\* none. The evaluation changes neither the trial nor the session state.
C7_CheckAnswer ==
    /\ [](pc = "answered" =>
            LET some_rf == \E p \in gen_trial.rule_features :
                               gen_trial.options[selected][p] = gen_trial.main[p]
            IN  /\ result \in {"correct", "half_correct", "incorrect"}
                /\ result = "correct" <=> selected = gen_trial.correct
                /\ selected # gen_trial.correct =>
                      /\ result = "half_correct" <=> some_rf
                      /\ result = "incorrect" <=> ~some_rf)
    /\ [][pc = "trial" => (gen_trial' = gen_trial /\ UNCHANGED session_vars)]_vars

\* A wrong option that shares one rule feature with main was selected.
C7_Witness ==
    /\ pc = "answered" /\ result = "half_correct"
    /\ selected # gen_trial.correct
    /\ CountRuleMatches(gen_trial.main, gen_trial.options[selected],
                        gen_trial.rule_features) = 1

\* What the claim calls a feasible call of generate_matching_card.
Feasible(c) ==
    LET free == {p \in c.active_positions :
                   p \notin c.must_match /\ p \notin c.must_differ}
    IN  /\ c.must_match \cap c.must_differ = {}
        /\ 0 <= c.n_match - Cardinality(c.must_match)
        /\ c.n_match - Cardinality(c.must_match) <= Cardinality(free)

\* C8. Exact-match primitive: a feasible call returns, and every card returned
\* equals main on exactly n_match active positions, on every must_match
\* position and on no must_differ position, with a value in 1..4 at every active
\* position and 0 at every inactive one.
C8_ExactMatch ==
    /\ (pc = "raised") => ~Feasible(call)
    /\ (pc = "returned") =>
        /\ Feasible(call)
        /\ Cardinality({p \in call.active_positions : card[p] = call.main[p]})
              = call.n_match
        /\ \A p \in call.must_match : card[p] = call.main[p]
        /\ \A p \in call.must_differ : card[p] # call.main[p]
        /\ \A p \in Positions :
              IF p \in call.active_positions THEN card[p] \in 1..NumForms
              ELSE card[p] = 0

\* A 4-symbol call with one pinned match, one pinned difference and one more
\* match to place among two free positions has returned.
C8_Witness ==
    /\ pc = "returned"
    /\ call.active_positions = active_4 /\ call.n_match = 2
    /\ Cardinality(call.must_match) = 1 /\ Cardinality(call.must_differ) = 1

\* C9. No infeasibility error: for every rule, every feature pair the
\* assignment can produce and every random choice, generating a trial never
\* raises the invalid-constraint error nor draws from an empty range.
C9_NoInfeasibility == pc # "raised"

\* A transition trial of rule 6 with a bonus match on the correct card and a
\* wrong card of 3 matches has been generated.
C9_Witness ==
    /\ pc = "trial" /\ gen_trial.rule = 6 /\ gen_trial.is_transition
    /\ \E i \in Positions :
         /\ i # gen_trial.correct
         /\ Cardinality({p \in Positions : gen_trial.options[i][p] = gen_trial.main[p]}) = 3
    /\ Cardinality({p \in Positions :
          gen_trial.options[gen_trial.correct][p] = gen_trial.main[p]}) = 3

\* C10. Consecutive feature pairs differ: every assigned pair is two distinct
\* active positions of the rule's own stage, and for every rule r in 2..6 the
\* pair of r differs from the pair of r - 1, rule 3 included.
C10_ConsecutivePairsDiffer ==
    \A r \in DOMAIN rule_features :
        /\ rule_features[r] \subseteq ActiveOf(r)
        /\ Cardinality(rule_features[r]) = 2
        /\ r >= 2 => rule_features[r] # rule_features[r - 1]

\* All six rules are assigned, rule 3 has a pair of stage-1 positions and a
\* pair returns after one rule.
C10_Witness ==
    /\ Len(rule_features) = NumRules
    /\ rule_features[3] \subseteq active_3
    /\ rule_features[6] = rule_features[4]

\* ---------------------------------------------------------------- C11
\* The option under index i equals main on exactly the positions of pair among
\* the active positions.
IsTransitionCard(trial_data, i, pair) ==
    \A p \in trial_data.active_positions :
        (trial_data.options[i][p] = trial_data.main[p]) <=> (p \in pair)

\* The option under index i has the match counts of entry k (1 or 2) of the
\* rule's table of wrong cards: n matches, or n matches not on both rule
\* features.
KeepsTable(trial_data, i, k) ==
    LET n == CountRuleMatches(trial_data.main, trial_data.options[i],
                              trial_data.active_positions)
        not_rule == CountRuleMatches(trial_data.main, trial_data.options[i],
                                     trial_data.rule_features) < 2
        r == trial_data.rule
    IN  IF k = 1
        THEN IF r \in {1, 3} THEN n = 0
             ELSE IF r \in {2, 4, 5} THEN n = 1
             ELSE n \in {2, 3} /\ not_rule
        ELSE IF r \in {1, 3, 4} THEN n = 1
             ELSE n = 2 /\ not_rule

\* The trial loop appends a trial in this step.
TrialAppended == pc = "generate" /\ pc' = "trial"

\* C11. Transition substitution: the trial the loop appends is flagged
\* is_transition if and only if its rule is not rule 1 and its ordinal in the
\* rule is below transition_trials; a flagged trial has among its three wrong
\* options a card that equals main on exactly the two positions of the
\* previous rule's pair and differs on every other active position, and the
\* other two wrong options have the match counts of the first two entries of
\* the rule's table, so the card stands in the table's third place.
C11_TransitionSubstitution ==
    [][TrialAppended =>
        LET wrongs == Positions \ {gen_trial'.correct}
        IN  /\ gen_trial'.rule = args.rule_num
            /\ gen_trial'.trial_index_in_rule = args.trial_i
            /\ gen_trial'.is_transition <=>
                   (args.rule_num # 1 /\ args.trial_i < args.transition_trials)
            /\ gen_trial'.is_transition =>
                   \E i3 \in wrongs : \E i1 \in wrongs \ {i3} :
                   \E i2 \in wrongs \ {i1, i3} :
                      /\ IsTransitionCard(gen_trial', i3, args.prev_rule_features)
                      /\ KeepsTable(gen_trial', i1, 1)
                      /\ KeepsTable(gen_trial', i2, 2)]_vars

\* A transition trial of rule 3 has been appended: its transition card equals
\* main on the pair of rule 2 and differs on position 3 of the new stage, and
\* the wrong options with 0 and 1 matches of the table are beside it.
C11_Witness ==
    /\ pc = "trial" /\ gen_trial.rule = 3 /\ gen_trial.is_transition
    /\ gen_trial.trial_index_in_rule < MaxTransitionTrials
    /\ \E i3 \in Positions \ {gen_trial.correct} :
          /\ CountRuleMatches(gen_trial.main, gen_trial.options[i3], active_4) = 2
          /\ gen_trial.options[i3][3] # gen_trial.main[3]
          /\ \E i1, i2 \in Positions \ {gen_trial.correct, i3} :
                /\ i1 # i2
                /\ KeepsTable(gen_trial, i1, 1) /\ KeepsTable(gen_trial, i2, 2)

\* ---------------------------------------------------------------- C12
\* C12. Counter conservation: in every reachable session state
\* score + perseveration_errors + non_perseveration_errors = counted_trials,
\* every counter is at least 0 and rules_found is at most the number of rules;
\* score does not decrease in a page run other than Restart.
C12_CounterConservation ==
    /\ [](/\ score + perseveration_errors + non_perseveration_errors = counted_trials
          /\ counted_trials >= 0 /\ score >= 0
          /\ perseveration_errors >= 0 /\ non_perseveration_errors >= 0
          /\ consecutive_correct >= 0 /\ rules_found >= 0 /\ trial >= 0
          /\ rules_found <= NumRules)
    /\ [][SessionStep => score' >= score]_vars

\* Every counter has moved: correct answers, errors of both classes and a
\* rule found by a streak, with a selection on a counted trial just made.
C12_Witness ==
    /\ pc = "session" /\ show_feedback
    /\ score > 0 /\ perseveration_errors > 0 /\ non_perseveration_errors > 0
    /\ rules_found > 0
    /\ counted_trials = score + perseveration_errors + non_perseveration_errors

\* ---------------------------------------------------------------- C13
\* The most counted_trials can be once the cursor stands where it stands: 9 for
\* each rule before the cursor's rule, and in the cursor's rule one for each
\* trial after the first that has been answered.
CountedBound ==
    IF trial >= Len(TRIALS) THEN NumRules * (TRIALS_PER_RULE - 1)
    ELSE LET k == TrialAt(trial).trial_index_in_rule
         IN  (TrialAt(trial).rule - 1) * (TRIALS_PER_RULE - 1)
                + (IF show_feedback THEN k ELSE Max(k - 1, 0))

\* C13. Reachability of the 60-trial cap: with the buffer of 6 rules x 10
\* trials counted_trials is at most 9 for each rule the cursor has reached and
\* at most 54 overall, so counted_trials >= 60 never holds and the session
\* is over only when the cursor has passed the end of the buffer; the 60 steps
\* the instructions announce are never counted.
C13_CapUnreachable ==
    /\ Len(TRIALS) = NumRules * TRIALS_PER_RULE
    /\ counted_trials <= CountedBound
    /\ counted_trials <= NumRules * (TRIALS_PER_RULE - 1)
    /\ counted_trials < MAX_COUNTED_TRIALS
    /\ counted_trials < INSTRUCTED_STEPS
    /\ GameOver <=> trial >= Len(TRIALS)

\* The session is over with the most trials counted: every rule was answered
\* through its tenth trial and then left by a streak.
C13_Witness ==
    /\ pc = "session" /\ GameOver
    /\ counted_trials = NumRules * (TRIALS_PER_RULE - 1)
    /\ rules_found = NumRules

====
